---- MODULE Spec2Model ----
(***************************************************************************)
(* A model of teaspoon: the in-memory time series (src/timeseries.rs),     *)
(* the binary codec (src/protocol.rs) and the mio event loop               *)
(* (src/server.rs).                                                        *)
(*                                                                         *)
(* Three specifications share the module.  Spec drives one TimeSeries      *)
(* through add_point and its queries; the other two keep the time series   *)
(* fixed and drive the codec and the server.                               *)
(*                                                                         *)
(* Abstractions.  An f64 value is an integer number of hundredths          *)
(* (12.98 is 1298); a mean is kept as the exact pair (sum, n) instead of   *)
(* the rounded quotient.  u128 timestamps are naturals far from 2^128.     *)
(***************************************************************************)
EXTENDS Integers, Sequences, FiniteSets, TLC

VARIABLES
    records,      \* TimeSeries.records : Vec<Record>
    out,          \* the last call on the series and what it returned
    pkt,          \* the TsPacket handed to to_binary
    wire,         \* the Vec<u8> to_binary returned
    decoded,      \* what from_binary returned
    cstep,        \* how far the codec run got: "new", "encoded", "partial",
                  \* "decoded"
    fed,          \* the bytes handed to the last from_binary
    hop,          \* the last opcode lookup and what it returned
    connections,  \* Server.connections : HashMap<Token, Client>
    registry,     \* the sources registered with poll and their interest
    counter,      \* the local counter of run, the last token handed out
    issued,       \* history: the tokens handed out so far, in order
    arrived,      \* history: per open connection, the bytes its socket's
                  \* reads have returned since it was accepted, in order
    pending,      \* tokens of the events of this batch not yet iterated
    pc,           \* where run stands
    cur,          \* the token of the readable event being drained, else 0
    got,          \* the bytes read so far by the current readable event
    io            \* the last call into the operating system and its result

tsVars == <<records, out>>

codecVars == <<pkt, wire, decoded, cstep, fed, hop>>

serverVars ==
    <<connections, registry, counter, issued, arrived, pending, pc, cur, got,
      io>>

vars == <<tsVars, codecVars, serverVars>>

----------------------------------------------------------------------------
(* Bounds and input sets *)

\* longest records vector the model builds
MaxLen == 4

\* records handed to add_point: the four points of the windowed-average
\* example and a second point at timestamp 500
Samples ==
    { [timestamp |-> 0,    value |-> 1298],
      [timestamp |-> 500,  value |-> 1963],
      [timestamp |-> 999,  value |-> 1128],
      [timestamp |-> 1500, value |-> 1596],
      [timestamp |-> 500,  value |-> 1128] }

\* timestamps handed to search and range: stored ones, one between two
\* stored ones and one above all
QueryTs == {0, 250, 500, 999, 1500, 1600}

\* interval widths handed to avg_interval
Intervals == {0, 500, 1000}

\* longest name, in code points, of an encoded command
MaxNameLen == 2

\* code points of names: one of each UTF-8 width (a, e-acute, euro, emoji)
Alphabet == {97, 233, 8364, 128512}

\* values of TsHeader.byte and TsHeader.size
HeaderBytes == {0, 1, 16, 64, 80, 255}

HeaderSizes == {0, 10, 300, 70000}

\* values of TsCreate.retention: both ends of i32, zero and its neighbours
Retentions == {(-2147483647) - 1, -3000, -1, 0, 3000, 2147483647}

\* most connections accepted in one run
MaxConn == 2

\* most bytes a connection's buffer holds
MaxBuffer == 36

----------------------------------------------------------------------------
(* Helpers *)

RECURSIVE SumSeq(_)
SumSeq(s) == IF s = <<>> THEN 0 ELSE Head(s) + SumSeq(Tail(s))

\* the slice s[a..b) of Rust, 0-based, a <= b <= len
Slice(s, a, b) == [i \in 1..(b - a) |-> s[a + i]]

IsSorted(recs) ==
    \A i \in 1..Len(recs) : \A j \in i..Len(recs) :
        recs[i].timestamp <= recs[j].timestamp

Result(op, args, kind, val) ==
    [op |-> op, args |-> args, kind |-> kind, val |-> val]

----------------------------------------------------------------------------
(* src/timeseries.rs *)

\* the closure of search: r.timestamp.cmp(&val).then(Ordering::Greater)
search_cmp_equal_is_less(ts, val) ==
    IF ts < val THEN "Less" ELSE IF ts > val THEN "Greater" ELSE "Less"

search_cmp_without_then(ts, val) ==
    IF ts < val THEN "Less" ELSE IF ts > val THEN "Greater" ELSE "Equal"

search_cmp(ts, val) ==
    IF ts < val THEN "Less" ELSE IF ts > val THEN "Greater" ELSE "Greater"

\* slice::binary_search_by, the loop of the standard library: halve the
\* window [base, base + size) until one element is left, then compare it
RECURSIVE binary_search_loop(_, _, _, _)
binary_search_loop(recs, val, base, size) ==
    IF size > 1
    THEN LET half == size \div 2
             mid  == base + half
             cmp  == search_cmp(recs[mid + 1].timestamp, val)
         IN  binary_search_loop(recs, val,
                                IF cmp = "Greater" THEN base ELSE mid,
                                size - half)
    ELSE LET cmp == search_cmp(recs[base + 1].timestamp, val)
         IN  IF cmp = "Equal"
             THEN [kind |-> "Ok", val |-> base]
             ELSE [kind |-> "Err",
                   val  |-> base + (IF cmp = "Less" THEN 1 ELSE 0)]

search(recs, val) ==
    IF Len(recs) = 0
    THEN [kind |-> "Err", val |-> 0]
    ELSE binary_search_loop(recs, val, 0, Len(recs))

\* range: None on an empty series, else records[start..end + 1]; unwrap_err
\* panics on Ok and the slice panics when start > end + 1 or end + 1 > len
range(recs, lo, hi) ==
    IF Len(recs) = 0
    THEN [kind |-> "None", val |-> <<>>]
    ELSE LET s == search(recs, lo)
             e == search(recs, hi)
         IN  IF s.kind = "Ok" \/ e.kind = "Ok"
             THEN [kind |-> "panic", val |-> <<>>]
             ELSE IF s.val > e.val + 1 \/ e.val + 1 > Len(recs)
                  THEN [kind |-> "panic", val |-> <<>>]
                  ELSE [kind |-> "Some",
                        val  |-> Slice(recs, s.val, e.val + 1)]

\* the filter of one window of avg_interval:
\* v.timestamp > current_ts - interval && v.timestamp < current_ts
in_window(ts, current_ts, interval) ==
    ts > current_ts - interval /\ ts < current_ts

\* the values of the records of one window, in series order
window_values(recs, current_ts, interval) ==
    LET idx == {i \in 1..Len(recs) :
                   in_window(recs[i].timestamp, current_ts, interval)}
        RECURSIVE Pick(_)
        Pick(i) == IF i > Len(recs) THEN <<>>
                   ELSE IF i \in idx
                        THEN <<recs[i].value>> \o Pick(i + 1)
                        ELSE Pick(i + 1)
    IN  Pick(1)

\* a mean, sum / len, kept exact
mean(vals) == [sum |-> SumSeq(vals), n |-> Len(vals)]

\* avg: the sum of the values divided by the length, both as f64; on an
\* empty series that is 0.0 / 0.0, the f64 NaN
avg(recs) ==
    IF Len(recs) = 0
    THEN [kind |-> "f64", val |-> "NaN"]
    ELSE [kind |-> "f64",
          val  |-> mean([i \in 1..Len(recs) |-> recs[i].value])]

\* the while loop of avg_interval
RECURSIVE avg_interval_loop(_, _, _, _)
avg_interval_loop(recs, interval, current_ts, last_ts) ==
    IF current_ts <= last_ts
    THEN LET vals == window_values(recs, current_ts, interval)
             rest == avg_interval_loop(recs, interval,
                                       current_ts + interval, last_ts)
         IN  IF Len(vals) > 0 THEN <<mean(vals)>> \o rest ELSE rest
    ELSE <<>>

\* the values current_ts takes in the while loop of avg_interval
RECURSIVE windows_visited(_, _, _)
windows_visited(interval, current_ts, last_ts) ==
    IF current_ts <= last_ts
    THEN <<current_ts>>
         \o windows_visited(interval, current_ts + interval, last_ts)
    ELSE <<>>

\* avg_interval: None on an empty series; the division by interval panics
\* when interval is 0
avg_interval(recs, interval) ==
    IF Len(recs) = 0
    THEN [kind |-> "None", val |-> <<>>]
    ELSE IF interval = 0
         THEN [kind |-> "panic", val |-> <<>>]
         ELSE LET first_ts ==
                      (recs[1].timestamp \div interval) * interval
                  last_ts ==
                      ((recs[Len(recs)].timestamp \div interval) * interval)
                      + interval
              IN  [kind |-> "Some",
                   val  |-> avg_interval_loop(recs, interval,
                                              first_ts + interval, last_ts)]

----------------------------------------------------------------------------
(* src/protocol.rs.  bincode's default configuration: little-endian,       *)
(* fixed-width integers, usize as u64, a String as its u64 byte length     *)
(* followed by its UTF-8 bytes, trailing bytes allowed.  A String is the   *)
(* sequence of its code points; integers stay below 2^31.                  *)

\* impl AsOpcode for u8: the command a 4-bit code stands for
Some(v) == [kind |-> "Some", val |-> v]

None == [kind |-> "None", val |-> "none"]

as_opcode(code) ==
    CASE code = 0 -> Some("OpTsCreate")
      [] code = 1 -> Some("OpTsDelete")
      [] code = 2 -> Some("OpTsAddPoint")
      [] code = 3 -> Some("OpTsMaddPoint")
      [] code = 4 -> Some("OpTsQuery")
      [] OTHER    -> None

\* TsHeader::opcode: (self.byte >> 4).as_opcode()
opcode_without_shift(h) == as_opcode(h.byte)

opcode_low_nibble(h) == as_opcode(h.byte % 16)

opcode(h) == as_opcode(h.byte \div 16)

\* enum OpCode, and the cast `c as u8`: the discriminant of c, counted from 0
\* in the order of declaration
OpCode ==
    {"OpTsCreate", "OpTsDelete", "OpTsAddPoint", "OpTsMaddPoint", "OpTsQuery"}

as_u8(c) ==
    CASE c = "OpTsCreate"    -> 0
      [] c = "OpTsDelete"    -> 1
      [] c = "OpTsAddPoint"  -> 2
      [] c = "OpTsMaddPoint" -> 3
      [] c = "OpTsQuery"     -> 4

\* the four low bytes of n, little-endian, 0 <= n < 2^31
le_bytes(n) ==
    << n % 256, (n \div 256) % 256, (n \div 65536) % 256, n \div 16777216 >>

\* usize, written as a u64
serialize_usize(n) == le_bytes(n) \o <<0, 0, 0, 0>>

\* a u64 read from 8 bytes; one that does not fit the model's integers is
\* kept as its bytes
deserialize_usize(b) ==
    IF b[5] = 0 /\ b[6] = 0 /\ b[7] = 0 /\ b[8] = 0 /\ b[4] < 128
    THEN [fits |-> TRUE,
          val  |-> b[1] + 256 * b[2] + 65536 * b[3] + 16777216 * b[4]]
    ELSE [fits |-> FALSE, val |-> b]

\* i32 in two's complement
serialize_i32(x) ==
    IF x >= 0
    THEN le_bytes(x)
    ELSE LET b == le_bytes((x + 2147483647) + 1)
         IN  <<b[1], b[2], b[3], b[4] + 128>>

deserialize_i32_unsigned(b) ==
    b[1] + 256 * b[2] + 65536 * b[3] + 16777216 * (b[4] % 128)

deserialize_i32(b) ==
    LET low == b[1] + 256 * b[2] + 65536 * b[3] + 16777216 * (b[4] % 128)
    IN  IF b[4] >= 128 THEN (low - 2147483647) - 1 ELSE low

\* the UTF-8 bytes of one code point
utf8_char(c) ==
    IF c < 128 THEN <<c>>
    ELSE IF c < 2048 THEN <<192 + (c \div 64), 128 + (c % 64)>>
    ELSE IF c < 65536
         THEN <<224 + (c \div 4096), 128 + ((c \div 64) % 64), 128 + (c % 64)>>
         ELSE <<240 + (c \div 262144), 128 + ((c \div 4096) % 64),
                128 + ((c \div 64) % 64), 128 + (c % 64)>>

RECURSIVE utf8_bytes(_)
utf8_bytes(str) ==
    IF str = <<>> THEN <<>> ELSE utf8_char(Head(str)) \o utf8_bytes(Tail(str))

is_cont(b) == b >= 128 /\ b <= 191

\* String::from_utf8: the code points of a byte sequence, or not valid
RECURSIVE from_utf8(_)
from_utf8(b) ==
    IF b = <<>> THEN [ok |-> TRUE, val |-> <<>>]
    ELSE
    LET b1 == b[1]
        w  == IF b1 < 128 THEN 1
              ELSE IF b1 >= 194 /\ b1 <= 223 THEN 2
              ELSE IF b1 >= 224 /\ b1 <= 239 THEN 3
              ELSE IF b1 >= 240 /\ b1 <= 244 THEN 4
              ELSE 0
        second_ok ==
              IF b1 = 224 THEN b[2] >= 160 /\ b[2] <= 191
              ELSE IF b1 = 237 THEN b[2] >= 128 /\ b[2] <= 159
              ELSE IF b1 = 240 THEN b[2] >= 144 /\ b[2] <= 191
              ELSE IF b1 = 244 THEN b[2] >= 128 /\ b[2] <= 143
              ELSE is_cont(b[2])
        valid ==
              /\ w > 0
              /\ Len(b) >= w
              /\ (w >= 2 => second_ok)
              /\ (w >= 3 => is_cont(b[3]))
              /\ (w >= 4 => is_cont(b[4]))
        cp == IF w = 1 THEN b1
              ELSE IF w = 2 THEN (b1 - 192) * 64 + (b[2] - 128)
              ELSE IF w = 3
                   THEN (b1 - 224) * 4096 + (b[2] - 128) * 64 + (b[3] - 128)
                   ELSE (b1 - 240) * 262144 + (b[2] - 128) * 4096
                        + (b[3] - 128) * 64 + (b[4] - 128)
    IN  IF ~valid THEN [ok |-> FALSE, val |-> <<>>]
        ELSE LET rest == from_utf8(SubSeq(b, w + 1, Len(b)))
             IN  IF rest.ok THEN [ok |-> TRUE, val |-> <<cp>> \o rest.val]
                 ELSE rest

serialize_string(str) ==
    LET u == utf8_bytes(str) IN serialize_usize(Len(u)) \o u

DeOk(val, rest) == [ok |-> TRUE, val |-> val, rest |-> rest, err |-> "none"]

DeErr(err) == [ok |-> FALSE, val |-> <<>>, rest |-> <<>>, err |-> err]

\* a String read from the front of b
deserialize_string(b) ==
    IF Len(b) < 8 THEN DeErr("Io")
    ELSE LET n    == deserialize_usize(SubSeq(b, 1, 8))
             body == SubSeq(b, 9, Len(b))
         IN  IF ~n.fits \/ n.val > Len(body) THEN DeErr("Io")
             ELSE LET str == from_utf8(SubSeq(body, 1, n.val))
                  IN  IF str.ok
                      THEN DeOk(str.val, SubSeq(body, n.val + 1, Len(body)))
                      ELSE DeErr("InvalidUtf8Encoding")

\* #[derive(Serialize, Deserialize)] struct TsHeader { byte: u8, size: usize }
serialize_header(h) == <<h.byte>> \o serialize_usize(h.size)

deserialize_header(b) ==
    IF Len(b) < 9 THEN DeErr("Io")
    ELSE DeOk([byte |-> b[1], size |-> deserialize_usize(SubSeq(b, 2, 9)).val],
              SubSeq(b, 10, Len(b)))

\* struct TsCreate { name: String, retention: i32 }
serialize_create(p) == serialize_string(p.name) \o serialize_i32(p.retention)

deserialize_create(b) ==
    LET name == deserialize_string(b)
    IN  IF ~name.ok THEN name
        ELSE IF Len(name.rest) < 4 THEN DeErr("Io")
        ELSE DeOk([type      |-> "TsCreate",
                   name      |-> name.val,
                   retention |-> deserialize_i32(SubSeq(name.rest, 1, 4))],
                  SubSeq(name.rest, 5, Len(name.rest)))

\* struct TsDelete { name: String }
serialize_delete(p) == serialize_string(p.name)

deserialize_delete(b) ==
    LET name == deserialize_string(b)
    IN  IF ~name.ok THEN name
        ELSE DeOk([type |-> "TsDelete", name |-> name.val], name.rest)

\* TsPacket::to_binary: the header's bytes, then the payload's
to_binary(p) ==
    LET h == serialize_header(p.header)
        q == IF p.packet.type = "TsCreate" THEN serialize_create(p.packet)
             ELSE serialize_delete(p.packet)
    IN  [kind |-> "Ok", val |-> h \o q]

\* TsPacket::<T>::from_binary: T is the caller's choice of payload type
from_binary(b, T) ==
    IF Len(b) < 9
    THEN [kind |-> "Err", val |-> "Custom: Not enough bytes"]
    ELSE LET header == deserialize_header(SubSeq(b, 1, 9))
             body   == SubSeq(b, 10, Len(b))
             packet == IF T = "TsCreate" THEN deserialize_create(body)
                       ELSE deserialize_delete(body)
         IN  IF ~header.ok THEN [kind |-> "Err", val |-> header.err]
             ELSE IF ~packet.ok THEN [kind |-> "Err", val |-> packet.err]
             ELSE [kind |-> "Ok",
                   val  |-> [header |-> header.val, packet |-> packet.val]]

----------------------------------------------------------------------------
(* Operations on the series.  A panic ends the run. *)

Running == out.kind # "panic"

add_point(r) ==
    /\ Running
    /\ Len(records) < MaxLen
    /\ records' = Append(records, r)
    /\ out' = Result("add_point", <<r>>, "unit", <<>>)
    /\ UNCHANGED <<codecVars, serverVars>>

CallSearch(val) ==
    /\ Running
    /\ LET res == search(records, val)
       IN  out' = Result("search", <<val>>, res.kind, res.val)
    /\ UNCHANGED <<records, codecVars, serverVars>>

CallRange(lo, hi) ==
    /\ Running
    /\ LET res == range(records, lo, hi)
       IN  out' = Result("range", <<lo, hi>>, res.kind, res.val)
    /\ UNCHANGED <<records, codecVars, serverVars>>

CallAvgInterval(interval) ==
    /\ Running
    /\ LET res == avg_interval(records, interval)
       IN  out' = Result("avg_interval", <<interval>>, res.kind, res.val)
    /\ UNCHANGED <<records, codecVars, serverVars>>

CallAvg ==
    /\ Running
    /\ LET res == avg(records)
       IN  out' = Result("avg", <<>>, res.kind, res.val)
    /\ UNCHANGED <<records, codecVars, serverVars>>

TsInit ==
    /\ records = <<>>
    /\ out = Result("new", <<>>, "unit", <<>>)


----------------------------------------------------------------------------
(* A run of the codec: a packet is built, encoded, and the bytes decoded  *)
(* as the payload type they were encoded from.                            *)

Names == UNION {[1..n -> Alphabet] : n \in 0..MaxNameLen}

Headers == [byte : HeaderBytes, size : HeaderSizes]

Payloads ==
    [type : {"TsCreate"}, name : Names, retention : Retentions]
        \cup [type : {"TsDelete"}, name : Names]

Packets == [header : Headers, packet : Payloads]

CallToBinary ==
    /\ cstep = "new"
    /\ wire' = to_binary(pkt).val
    /\ cstep' = "encoded"
    /\ UNCHANGED <<pkt, decoded, fed, hop, tsVars, serverVars>>

\* from_binary on the first k bytes of the frame, the rest not yet arrived
CallFromBinaryPrefix(k) ==
    /\ cstep = "encoded"
    /\ fed' = SubSeq(wire, 1, k)
    /\ decoded' = from_binary(SubSeq(wire, 1, k), pkt.packet.type)
    /\ cstep' = "partial"
    /\ UNCHANGED <<pkt, wire, hop, tsVars, serverVars>>

\* from_binary on the whole frame, at once or after a prefix was tried
CallFromBinary ==
    /\ cstep \in {"encoded", "partial"}
    /\ fed' = wire
    /\ decoded' = from_binary(wire, pkt.packet.type)
    /\ cstep' = "decoded"
    /\ UNCHANGED <<pkt, wire, hop, tsVars, serverVars>>

\* a u8 turned into a command, and the command of a header
Lookup(call, arg, res) == [call |-> call, arg |-> arg, res |-> res]

NoLookup == Lookup("none", 0, None)

CallAsOpcode ==
    /\ hop.call = "none"
    /\ hop' = Lookup("as_opcode", pkt.header.byte, as_opcode(pkt.header.byte))
    /\ UNCHANGED <<pkt, wire, decoded, cstep, fed, tsVars, serverVars>>

CallOpcode ==
    /\ hop.call = "none"
    /\ hop' = Lookup("opcode", pkt.header.byte, opcode(pkt.header))
    /\ UNCHANGED <<pkt, wire, decoded, cstep, fed, tsVars, serverVars>>

\* every value of TsHeader.byte
U8 == 0..255

HeaderInit ==
    /\ pkt \in [header : [byte : U8, size : {0}],
                packet : {[type |-> "TsDelete", name |-> <<>>]}]
    /\ wire = <<>>
    /\ decoded = [kind |-> "none", val |-> <<>>]
    /\ cstep = "new"
    /\ fed = <<>>
    /\ hop = NoLookup

CodecInit ==
    /\ pkt \in Packets
    /\ wire = <<>>
    /\ decoded = [kind |-> "none", val |-> <<>>]
    /\ cstep = "new"
    /\ fed = <<>>
    /\ hop = NoLookup

CodecIdle ==
    /\ pkt = [header |-> [byte |-> 0, size |-> 0],
              packet |-> [type |-> "TsDelete", name |-> <<>>]]
    /\ wire = <<>>
    /\ decoded = [kind |-> "none", val |-> <<>>]
    /\ cstep = "new"
    /\ fed = <<>>
    /\ hop = NoLookup

----------------------------------------------------------------------------
(* src/server.rs, Server::run.  The model starts where the loop starts:    *)
(* the listener is bound and registered under Token(0).  What poll, accept,*)
(* read, write_all and register return is the environment's choice.  poll  *)
(* reports at most one event per registered source in a batch; the         *)
(* readiness flags of an event are an input of the loop.                   *)

BUFSIZE == 4096

\* frames a client sends: Delete "" and Delete "a", opcode 1 in the high
\* nibble of the header byte, the payload length in the size field
FrameA ==
    to_binary([header |-> [byte |-> 16, size |-> 8],
               packet |-> [type |-> "TsDelete", name |-> <<>>]]).val

FrameB ==
    to_binary([header |-> [byte |-> 16, size |-> 9],
               packet |-> [type |-> "TsDelete", name |-> <<97>>]]).val

TwoFrames == FrameA \o FrameB

\* what one read can return: two frames back to back, the header of a
\* frame without its payload, and bytes that are no frame
Chunks ==
    { TwoFrames,
      SubSeq(FrameA, 1, 9),
      [i \in 1..17 |-> 255] }

Io(call, token, result, data) ==
    [call |-> call, token |-> token, result |-> result, data |-> data]

Without(f, t) == [x \in (DOMAIN f) \ {t} |-> f[x]]

With(f, t, v) == [x \in (DOMAIN f) \cup {t} |-> IF x = t THEN v ELSE f[x]]

\* .unwrap(), unreachable!(): the thread panics and the process ends
Panic(call, token, result) ==
    /\ pc' = "panicked"
    /\ io' = Io(call, token, result, <<>>)

\* Client::dump_buffer: push the n bytes read onto the client's buffer
dump_buffer_replacing(client, bytes) == [client EXCEPT !.buffer = bytes]

dump_buffer(client, bytes) == [client EXCEPT !.buffer = @ \o bytes]

\* poll.poll(&mut events, None)?: a batch of events, one per ready source
PollOk(ready) ==
    /\ pc = "poll"
    /\ ready # {}
    /\ pending' = ready
    /\ pc' = "dispatch"
    /\ io' = Io("poll", 0, "Ok", <<>>)
    /\ UNCHANGED <<connections, registry, counter, cur, got>>
    /\ UNCHANGED <<issued, arrived, tsVars, codecVars>>

\* poll fails: ? returns the error from run
PollErr ==
    /\ pc = "poll"
    /\ pc' = "returned"
    /\ io' = Io("poll", 0, "Err", <<>>)
    /\ UNCHANGED <<connections, registry, counter, pending, cur, got>>
    /\ UNCHANGED <<issued, arrived, tsVars, codecVars>>

\* the for loop is through with the batch
EndBatch ==
    /\ pc = "dispatch"
    /\ pending = {}
    /\ pc' = "poll"
    /\ UNCHANGED <<connections, registry, counter, pending, cur, got, io>>
    /\ UNCHANGED <<issued, arrived, tsVars, codecVars>>

\* Token(0) => loop { listener.accept() ... }
DispatchListener ==
    /\ pc = "dispatch"
    /\ 0 \in pending
    /\ pending' = pending \ {0}
    /\ pc' = "accept"
    /\ UNCHANGED <<connections, registry, counter, cur, got, io>>
    /\ UNCHANGED <<issued, arrived, tsVars, codecVars>>

\* Ok((socket, _)): the next token, a new client registered for reading
AcceptOk_token_from_len ==
    /\ pc = "accept"
    /\ counter < MaxConn
    /\ counter' = counter + 1
    /\ LET token == Cardinality(DOMAIN connections) + 1
       IN  /\ registry' = With(registry, token, "READABLE")
           /\ connections' = With(connections, token, [buffer |-> <<>>])
           /\ issued' = Append(issued, token)
           /\ arrived' = With(arrived, token, <<>>)
           /\ io' = Io("accept", token, "Ok", <<>>)
    /\ UNCHANGED <<pending, pc, cur, got>>
    /\ UNCHANGED <<tsVars, codecVars>>

AcceptOk ==
    /\ pc = "accept"
    /\ counter < MaxConn
    /\ counter' = counter + 1
    /\ registry' = With(registry, counter + 1, "READABLE")
    /\ connections' = With(connections, counter + 1, [buffer |-> <<>>])
    /\ issued' = Append(issued, counter + 1)
    /\ arrived' = With(arrived, counter + 1, <<>>)
    /\ io' = Io("accept", counter + 1, "Ok", <<>>)
    /\ UNCHANGED <<pending, pc, cur, got>>
    /\ UNCHANGED <<tsVars, codecVars>>

\* Err(WouldBlock) and Err(_) both leave the accept loop
AcceptErr(kind) ==
    /\ pc = "accept"
    /\ pc' = "dispatch"
    /\ io' = Io("accept", 0, kind, <<>>)
    /\ UNCHANGED <<connections, registry, counter, pending, cur, got>>
    /\ UNCHANGED <<issued, arrived, tsVars, codecVars>>

\* token if event.is_readable() => loop { ... }
DispatchReadable(t) ==
    /\ pc = "dispatch"
    /\ t \in pending /\ t # 0
    /\ pending' = pending \ {t}
    /\ pc' = "read"
    /\ cur' = t
    /\ got' = <<>>
    /\ UNCHANGED <<connections, registry, counter, io>>
    /\ UNCHANGED <<issued, arrived, tsVars, codecVars>>

\* Ok(0): remove the client, which closes its socket, and leave the loop
read_zero_without_break ==
    /\ connections' = Without(connections, cur)
    /\ registry' = Without(registry, cur)
    /\ io' = Io("read", cur, "Ok0", got)
    /\ UNCHANGED <<pc, cur, got>>

read_zero ==
    /\ connections' = Without(connections, cur)
    /\ registry' = Without(registry, cur)
    /\ pc' = "dispatch"
    /\ cur' = 0
    /\ got' = <<>>
    /\ io' = Io("read", cur, "Ok0", got)

\* Ok(n): copy the n bytes read into the client's buffer and read again
read_some(bytes) ==
    /\ connections' =
           [connections EXCEPT ![cur] = dump_buffer(@, bytes)]
    /\ got' = got \o bytes
    /\ io' = Io("read", cur, "Ok", bytes)
    /\ UNCHANGED <<registry, pc, cur>>

\* Err(WouldBlock) and Err(_) both leave the drain loop
read_err(kind) ==
    /\ pc' = "dispatch"
    /\ cur' = 0
    /\ got' = <<>>
    /\ io' = Io("read", cur, kind, got)
    /\ UNCHANGED <<connections, registry>>

\* one turn of the drain loop: get_mut(&token).unwrap().stream.read(..)
\* and the match on what it returned
Read(res) ==
    /\ pc = "read"
    /\ IF cur \notin DOMAIN connections
       THEN /\ Panic("get_mut", cur, "None")
            /\ UNCHANGED <<connections, registry, cur, got, arrived>>
       ELSE IF res.kind = "Ok" /\ Len(res.bytes) = 0
       THEN /\ read_zero
            /\ arrived' = Without(arrived, cur)
       ELSE IF res.kind = "Ok"
       THEN /\ Len(res.bytes) <= BUFSIZE
            /\ Len(connections[cur].buffer) + Len(res.bytes) <= MaxBuffer
            /\ read_some(res.bytes)
            /\ arrived' = [arrived EXCEPT ![cur] = @ \o res.bytes]
       ELSE /\ read_err(res.kind)
            /\ UNCHANGED arrived
    /\ UNCHANGED <<counter, pending>>
    /\ UNCHANGED <<issued, tsVars, codecVars>>

\* token if event.is_writable(): send the buffer, unwrap the result, then
\* register the stream again for reading.  A second register of a source
\* is left unspecified by mio: it fails or it replaces the interest.
HandleWritable(t, wr, reg) ==
    /\ pc = "dispatch"
    /\ t \in pending /\ t # 0
    /\ pending' = pending \ {t}
    /\ IF t \notin DOMAIN connections
       THEN /\ Panic("get_mut", t, "None")
            /\ UNCHANGED registry
       ELSE IF wr # "Ok"
       THEN /\ Panic("write_all", t, wr)
            /\ UNCHANGED registry
       ELSE IF reg # "Ok"
       THEN /\ Panic("register", t, reg)
            /\ UNCHANGED registry
       ELSE /\ pc' = "dispatch"
            /\ io' = Io("write_all", t, "Ok", connections[t].buffer)
            /\ registry' = [registry EXCEPT ![t] = "READABLE"]
    /\ UNCHANGED <<connections, counter, cur, got>>
    /\ UNCHANGED <<issued, arrived, tsVars, codecVars>>

\* _ => unreachable!(): an event neither readable nor writable
DispatchUnreachable(t) ==
    /\ pc = "dispatch"
    /\ t \in pending /\ t # 0
    /\ pending' = pending \ {t}
    /\ Panic("event", t, "unreachable")
    /\ UNCHANGED <<connections, registry, counter, cur, got>>
    /\ UNCHANGED <<issued, arrived, tsVars, codecVars>>

\* what stream.read can return
ReadResults ==
    [kind : {"Ok"}, bytes : Chunks \cup {<<>>}]
        \cup [kind : {"WouldBlock", "Err"}, bytes : {<<>>}]

ServerInit ==
    /\ connections = <<>>
    /\ registry = (0 :> "READABLE")
    /\ counter = 0
    /\ issued = <<>>
    /\ arrived = <<>>
    /\ pending = {}
    /\ pc = "poll"
    /\ cur = 0
    /\ got = <<>>
    /\ io = Io("register", 0, "Ok", <<>>)

----------------------------------------------------------------------------
(* Specifications *)

Init == TsInit /\ CodecIdle /\ ServerInit

Next ==
    \/ \E r \in Samples : add_point(r)
    \/ \E val \in QueryTs : CallSearch(val)
    \/ \E lo \in QueryTs, hi \in QueryTs : CallRange(lo, hi)
    \/ \E interval \in Intervals : CallAvgInterval(interval)
    \/ CallAvg

Spec == Init /\ [][Next]_vars

InitCodec == TsInit /\ CodecInit /\ ServerInit

NextCodec ==
    \/ CallToBinary
    \/ \E k \in 0..(Len(wire) - 1) : CallFromBinaryPrefix(k)
    \/ CallFromBinary

SpecCodec == InitCodec /\ [][NextCodec]_vars

InitHeader == TsInit /\ HeaderInit /\ ServerInit

NextHeader ==
    \/ CallAsOpcode
    \/ CallOpcode

SpecHeader == InitHeader /\ [][NextHeader]_vars

InitServer == TsInit /\ CodecIdle /\ ServerInit

NextServer ==
    \/ \E ready \in SUBSET (DOMAIN registry) : PollOk(ready)
    \/ PollErr
    \/ EndBatch
    \/ DispatchListener
    \/ AcceptOk
    \/ \E kind \in {"WouldBlock", "Err"} : AcceptErr(kind)
    \/ \E t \in pending : DispatchReadable(t)
    \/ \E res \in ReadResults : Read(res)
    \/ \E t \in pending, wr \in {"Ok", "WouldBlock", "Err"},
          reg \in {"Ok", "Err"} : HandleWritable(t, wr, reg)
    \/ \E t \in pending : DispatchUnreachable(t)

SpecServer == InitServer /\ [][NextServer]_vars

----------------------------------------------------------------------------
(* Claims about the time series, checked under Spec *)

\* the records with lo <= timestamp <= hi, in series order
InBounds(recs, lo, hi) ==
    SelectSeq(recs, LAMBDA r : lo <= r.timestamp /\ r.timestamp <= hi)

\* how many records have a timestamp below val, and at most val
CountBelow(recs, val) ==
    Cardinality({i \in 1..Len(recs) : recs[i].timestamp < val})

CountUpTo(recs, val) ==
    Cardinality({i \in 1..Len(recs) : recs[i].timestamp <= val})

Holds(recs, val) == \E i \in 1..Len(recs) : recs[i].timestamp = val

\* C1: after every add_point, whatever the order of the timestamps, records
\* is sorted non-decreasing by timestamp.
C1_RecordsSortedAfterAddPoint == IsSorted(records)

\* C2: on a sorted series that holds records with timestamp ts, search(ts)
\* returns Err(i) with i the index right after the last record with
\* timestamp ts (the first index whose timestamp is strictly greater).
C2_SearchReturnsIndexAfterRun ==
    (out.op = "search" /\ IsSorted(records) /\ Holds(records, out.args[1]))
        => (out.kind = "Err" /\ out.val = CountUpTo(records, out.args[1]))

\* C2 as amended: on a sorted series that holds records with timestamp ts,
\* search(ts) returns Err(i), never Ok, with i the index of the first record
\* with timestamp ts (the first index whose timestamp is ts or greater).
C2_SearchReturnsIndexOfRunStart ==
    (out.op = "search" /\ IsSorted(records) /\ Holds(records, out.args[1]))
        => /\ out.kind = "Err"
           /\ out.val < Len(records)
           /\ records[out.val + 1].timestamp = out.args[1]
           /\ \A i \in 1..out.val : records[i].timestamp < out.args[1]

\* a search for 500 on a sorted series whose run of two records at 500
\* follows an earlier record and precedes a later one
C2_Witness ==
    /\ out.op = "search" /\ out.args = <<500>>
    /\ IsSorted(records)
    /\ CountBelow(records, 500) = 1
    /\ CountUpTo(records, 500) = 3
    /\ Len(records) = 4
    /\ out.val = 1

\* C3: on a non-empty sorted series and lo <= hi, range(lo, hi) returns
\* exactly the records with lo <= timestamp <= hi, in series order.
C3_RangeReturnsExactlyInBounds ==
    (/\ out.op = "range"
     /\ Len(records) > 0
     /\ IsSorted(records)
     /\ out.args[1] <= out.args[2])
        => (/\ out.kind = "Some"
            /\ out.val = InBounds(records, out.args[1], out.args[2]))

ExampleSeries ==
    << [timestamp |-> 0,    value |-> 1298],
       [timestamp |-> 500,  value |-> 1963],
       [timestamp |-> 999,  value |-> 1128],
       [timestamp |-> 1500, value |-> 1596] >>

\* C4: avg_interval(500) on the records 0: 12.98, 500: 19.63, 999: 11.28,
\* 1500: 15.96 emits exactly three means, of the groups {0}, {500, 999} and
\* {1500}, in that order.
C4_AvgIntervalExample ==
    (out.op = "avg_interval" /\ out.args = <<500>> /\ records = ExampleSeries)
        => (/\ out.kind = "Some"
            /\ out.val = << mean(<<1298>>),
                            mean(<<1963, 1128>>),
                            mean(<<1596>>) >>)

----------------------------------------------------------------------------
(* Claims about the event loop, checked under SpecServer *)

\* the token whose event a step of the loop handles
Handled == IF pc = "read" THEN {cur} ELSE pending \ pending'

\* a turn of the drain loop whose read returned result
ReadReturned(result) ==
    pc = "read" /\ io'.call = "read" /\ io'.result = result

\* C5: when one readable event delivers two complete frames, both are
\* decoded and dispatched and both responses are queued for writing on that
\* connection, to be written in the order the frames came: once the event is
\* handled the connection waits for writability.
C5_PipelinedFramesAnswered ==
    (/\ pc = "dispatch"
     /\ io.call = "read" /\ io.result = "WouldBlock"
     /\ io.data = TwoFrames
     /\ io.token \in DOMAIN connections)
        => registry[io.token] = "WRITABLE"

\* C6: no event on one client connection ends the server process: after
\* handling it the loop still runs and every other connection is still in
\* the table.
C6_ClientEventNeverEndsServer ==
    [][(pc \in {"dispatch", "read"})
          => /\ pc' # "panicked"
             /\ \A t \in (DOMAIN connections) \ Handled :
                    t \in DOMAIN connections']_vars

\* C7: a read that fails with an error other than would-block removes that
\* connection and only that one from the table; a would-block read leaves
\* the table and the buffers as they are.
C7_ReadErrorRemovesConnection ==
    [][/\ ReadReturned("Err")
          => DOMAIN connections' = (DOMAIN connections) \ {cur}
       /\ ReadReturned("WouldBlock")
          => connections' = connections]_vars

\* C8: a zero-byte read removes the connection from the table at once, its
\* buffered bytes with it, and ends the drain loop of that event; no later
\* step of the loop looks up an entry the table does not hold.
C8_ZeroReadRemovesConnection ==
    /\ [][ReadReturned("Ok0")
             => /\ cur \notin DOMAIN connections'
                /\ cur \notin DOMAIN registry'
                /\ cur \notin pending'
                /\ pc' = "dispatch"
                /\ \A t \in (DOMAIN connections) \ {cur} :
                       /\ t \in DOMAIN connections'
                       /\ connections'[t] = connections[t]]_vars
    /\ [](/\ pc = "read" => cur \in DOMAIN connections
          /\ pending \ {0} \subseteq DOMAIN connections
          /\ ~(io.call = "get_mut" /\ io.result = "None"))

\* a zero-byte read that followed bytes read by the same event, while
\* another connection and another event of the batch are left
C8_Witness ==
    /\ io.call = "read" /\ io.result = "Ok0"
    /\ io.data # <<>>
    /\ io.token \notin DOMAIN connections
    /\ connections # <<>>
    /\ pending # {}
    /\ pc = "dispatch"

\* C9: after a writable event whose write succeeded, the connection's
\* buffer is empty and its interest is Read.
C9_WriteSuccessClearsBuffer ==
    (/\ io.call = "write_all" /\ io.result = "Ok"
     /\ io.token \in DOMAIN connections)
        => /\ connections[io.token].buffer = <<>>
           /\ registry[io.token] = "READABLE"

----------------------------------------------------------------------------
(* Claims about the codec, checked under SpecCodec *)

\* C10: for every packet of every payload type, from_binary(to_binary(p))
\* succeeds and returns a packet equal to p in header and payload.
C10_RoundTrip ==
    cstep = "decoded"
        => /\ decoded.kind = "Ok"
           /\ decoded.val.header = pkt.header
           /\ decoded.val.packet = pkt.packet

\* a decoded TsCreate with an empty name and a negative retention
C10_Witness ==
    /\ cstep = "decoded"
    /\ decoded.kind = "Ok"
    /\ pkt.packet.type = "TsCreate"
    /\ pkt.packet.name = <<>>
    /\ pkt.packet.retention < 0
    /\ decoded.val.packet.retention = pkt.packet.retention

\* the payload bytes from_binary read to build a decoded packet
Consumed(p) == Len(to_binary(p).val) - 9

\* C11: from_binary on a proper prefix of a valid frame, shorter than the
\* header or with a truncated payload, returns the one "need more bytes"
\* outcome, never another error; from_binary on the prefix followed by the
\* missing rest succeeds.
C11_PrefixNeedsMoreBytes ==
    /\ cstep = "partial"
           => /\ decoded.kind = "Err"
              /\ decoded.val = "Custom: Not enough bytes"
    /\ (cstep = "decoded" /\ fed = wire) => decoded.kind = "Ok"

\* C12: a successful decode read as payload exactly the header's size
\* bytes that follow the 9-byte header.
C12_PayloadIsSizeBytes ==
    (cstep = "decoded" /\ decoded.kind = "Ok")
        => decoded.val.header.size = Consumed(decoded.val)

----------------------------------------------------------------------------
(* Claims about the opcode of a header, checked under SpecHeader *)

\* the opcode space of the wire format
CommandOf(code) ==
    IF code = 0 THEN Some("OpTsCreate")
    ELSE IF code = 1 THEN Some("OpTsDelete")
    ELSE IF code = 2 THEN Some("OpTsAddPoint")
    ELSE IF code = 3 THEN Some("OpTsMaddPoint")
    ELSE IF code = 4 THEN Some("OpTsQuery")
    ELSE None

\* C13: codes 0..4 are Create, Delete, AddPoint, MultiAddPoint, Query and
\* every other code is no command; opcode() looks up the high nibble of the
\* header byte, so a high nibble of 5..15 gives None.
C13_OpcodeMapping ==
    /\ hop.call = "as_opcode" => hop.res = CommandOf(hop.arg)
    /\ hop.call = "opcode"
           => /\ hop.res = CommandOf(hop.arg \div 16)
              /\ (hop.arg \div 16) \in 5..15 => hop.res = None

\* opcode() on the byte 0x4f: Query, whatever the low nibble holds
C13_Witness ==
    /\ hop.call = "opcode"
    /\ hop.arg = 79
    /\ hop.res = Some("OpTsQuery")

\* C21 as stated: a header whose byte is `c as u8` reports opcode() ==
\* Some(c), for each of the five commands c.
C21_CastByteReportsItsOpcode ==
    \A c \in OpCode :
        (hop.call = "opcode" /\ hop.arg = as_u8(c)) => hop.res = Some(c)

\* C21 as amended: `c as u8` lies in 0..4, whose high nibble is 0, so such a
\* header reports Some(OpTsCreate) for every c; the header that reports
\* Some(c) is the one whose byte carries c in its high nibble, (c as u8) << 4.
C21_ShiftedByteReportsItsOpcode ==
    \A c \in OpCode :
        hop.call = "opcode"
            => /\ hop.arg = as_u8(c) => hop.res = Some("OpTsCreate")
               /\ hop.arg = as_u8(c) * 16 => hop.res = Some(c)

\* opcode() on a header built with OpTsQuery as u8 has answered OpTsCreate
C21_Witness ==
    /\ hop.call = "opcode"
    /\ hop.arg = as_u8("OpTsQuery")
    /\ hop.res = Some("OpTsCreate")

----------------------------------------------------------------------------
(* More claims about the codec, checked under SpecCodec *)

\* C14: decoding a frame whose header carries an opcode outside 0..4 fails
\* with the "unknown command" error, whatever the payload.
C14_UnknownOpcodeRejected ==
    (cstep = "decoded" /\ opcode(pkt.header) = None)
        => /\ decoded.kind = "Err"
           /\ decoded.val = "TsUnknownCmd"

----------------------------------------------------------------------------
(* More claims about the time series, checked under Spec *)

Values(recs) == [i \in 1..Len(recs) |-> recs[i].value]

\* C15: avg on a series without records yields an error or no-data outcome,
\* not a number; on a series with records it yields the sum of the values
\* divided by their count.
C15_AvgOfEmptyIsNoData ==
    out.op = "avg"
        => IF Len(records) = 0
           THEN out.kind \in {"Err", "None"}
           ELSE /\ out.kind = "f64"
                /\ out.val = [sum |-> SumSeq(Values(records)),
                              n   |-> Len(records)]

\* C17: on a sorted series search(ts) never returns Ok; it returns Err(i)
\* with every record below index i earlier than ts and every record at
\* index i or above at ts or later.
C17_SearchIsLowerBound ==
    (out.op = "search" /\ IsSorted(records))
        => /\ out.kind = "Err"
           /\ out.val \in 0..Len(records)
           /\ \A k \in 1..Len(records) :
                  IF k <= out.val
                  THEN records[k].timestamp < out.args[1]
                  ELSE records[k].timestamp >= out.args[1]

\* a search for 999 in a sorted series of four records, two of them before
\* 999 and a run of two at 999: the result is the index of the run's first
C17_Witness ==
    /\ out.op = "search" /\ out.args = <<999>>
    /\ IsSorted(records)
    /\ Len(records) = 4
    /\ records[1].timestamp = 0
    /\ records[3].timestamp = 999
    /\ records[4].timestamp = 999
    /\ out.kind = "Err" /\ out.val = 2

\* C18: range never fails on a slice out of bounds: None on an empty
\* series and Some(records) on a sorted series with records, for every lo
\* and hi.
C18_RangeNeverPanics ==
    out.op = "range"
        => /\ Len(records) = 0 => out.kind = "None"
           /\ (Len(records) > 0 /\ IsSorted(records)) => out.kind = "Some"

RECURSIVE SumCounts(_)
SumCounts(means) ==
    IF means = <<>> THEN 0 ELSE Head(means).n + SumCounts(Tail(means))

RECURSIVE SumSums(_)
SumSums(means) ==
    IF means = <<>> THEN 0 ELSE Head(means).sum + SumSums(Tail(means))

\* C19: on a sorted series with records and an interval of 1 or more, the
\* windows of avg_interval partition the records: every record, one on a
\* multiple of the interval too, counts in exactly one mean, and there are
\* as many means as windows that hold a record.
C19_WindowsPartitionRecords ==
    (/\ out.op = "avg_interval"
     /\ out.args[1] >= 1
     /\ Len(records) > 0
     /\ IsSorted(records))
        => /\ out.kind = "Some"
           /\ SumCounts(out.val) = Len(records)
           /\ SumSums(out.val) = SumSeq(Values(records))
           /\ Len(out.val) =
                  Cardinality({records[i].timestamp \div out.args[1] :
                                   i \in 1..Len(records)})

\* C20: on a series with records avg_interval returns a result for every
\* interval, 0 too; for an interval of 1 or more on a sorted series it
\* visits the windows from the first record's boundary below to the last
\* record's boundary above, (last_ts - first_ts) / interval of them.
C20_AvgIntervalTerminates ==
    (out.op = "avg_interval" /\ Len(records) > 0)
        => /\ out.kind = "Some"
           /\ (out.args[1] >= 1 /\ IsSorted(records))
                  => LET w        == out.args[1]
                         first_ts == (records[1].timestamp \div w) * w
                         last_ts  ==
                             ((records[Len(records)].timestamp \div w) * w) + w
                     IN  windows_visited(w, first_ts + w, last_ts)
                             = [k \in 1..((last_ts - first_ts) \div w)
                                    |-> first_ts + k * w]

----------------------------------------------------------------------------
(* More claims about the event loop, checked under SpecServer *)

\* C16: across accepts and disconnects every accepted connection gets a
\* token greater than every token handed out before, never the listener's
\* token 0, and never one that a connection in the table holds.
C16_TokensAreFresh ==
    /\ [](/\ \A i \in 1..Len(issued) :
                /\ issued[i] > 0
                /\ \A j \in 1..(i - 1) : issued[j] < issued[i]
          /\ \A t \in DOMAIN connections :
                \E i \in 1..Len(issued) : issued[i] = t)
    /\ [][Len(issued') > Len(issued)
             => LET token == issued'[Len(issued')]
                IN  /\ token \notin DOMAIN connections
                    /\ DOMAIN connections' = (DOMAIN connections) \cup {token}
                    /\ \A t \in DOMAIN connections :
                           connections'[t] = connections[t]]_vars

\* the second connection accepted after the first one was removed
C16_Witness ==
    /\ issued = <<1, 2>>
    /\ DOMAIN connections = {2}
    /\ io.call = "accept" /\ io.result = "Ok" /\ io.token = 2

\* C22: however the readable events of the connections interleave, the
\* buffer of every open connection is the bytes its socket's reads have
\* returned since it was accepted, in the order they came, nothing lost and
\* nothing twice, whether a drain loop ended on would-block or on an error;
\* and a turn of the drain loop on one connection leaves the buffer of
\* every other connection as it was.
C22_BufferIsAllBytesRead ==
    /\ [](/\ DOMAIN arrived = DOMAIN connections
          /\ \A t \in DOMAIN connections :
                connections[t].buffer = arrived[t])
    /\ [][pc = "read"
             => \A t \in (DOMAIN connections) \ {cur} :
                    /\ t \in DOMAIN connections'
                    /\ connections'[t] = connections[t]]_vars

\* connection 1 read a header in an earlier readable event, connection 2
\* has read 26 bytes, and the first read of a later event on connection 1
\* brought 17 more bytes
C22_Witness ==
    /\ DOMAIN connections = {1, 2}
    /\ connections[1].buffer = SubSeq(FrameA, 1, 9) \o [i \in 1..17 |-> 255]
    /\ connections[2].buffer = [i \in 1..17 |-> 255] \o SubSeq(FrameA, 1, 9)
    /\ io.call = "read" /\ io.result = "Ok" /\ io.token = 1
    /\ io.data = [i \in 1..17 |-> 255]
    /\ got = io.data

====
